---- MODULE Spec2Model ----
(***************************************************************************)
(* Model of testing-validation/fix_fqcn.py: a command-line tool that reads *)
(* one text file, runs one regular-expression substitution pass per        *)
(* builtin Ansible module name over the whole content, and writes the      *)
(* result back to the same path.                                           *)
(*                                                                         *)
(* Text is a sequence of one-character strings.  The regular expression of *)
(* fix_fqcn.py:29 (anchor, one or more whitespace, the name, a colon, any  *)
(* whitespace; three groups) under re.MULTILINE                            *)
(* is modelled by what the matcher does on the characters: the anchor, the *)
(* greedy whitespace runs (which include newlines) and the left-to-right,  *)
(* non-overlapping scan of re.sub.                                         *)
(***************************************************************************)
EXTENDS Integers, Sequences, FiniteSets, TLC

(***************************************************************************)
(* Bounds of the model.                                                    *)
(***************************************************************************)
MaxLines == 2       \* lines per input file
MaxRuns == 2        \* invocations of the program on the same path
NumPermuted == 3    \* modules whose passes are reordered in SpecPerm

(***************************************************************************)
(* Program constants.                                                      *)
(***************************************************************************)
\* fix_fqcn.py:13-20
builtin_modules ==
  << <<"a","s","s","e","r","t">>,
     <<"c","o","m","m","a","n","d">>,
     <<"c","o","p","y">>,
     <<"d","e","b","u","g">>,
     <<"f","a","i","l">>,
     <<"f","i","l","e">>,
     <<"g","e","t","_","u","r","l">>,
     <<"g","r","o","u","p">>,
     <<"i","n","c","l","u","d","e","_","t","a","s","k","s">>,
     <<"i","n","c","l","u","d","e","_","v","a","r","s">>,
     <<"l","i","n","e","i","n","f","i","l","e">>,
     <<"m","e","t","a">>,
     <<"p","a","u","s","e">>,
     <<"r","a","w">>,
     <<"s","c","r","i","p","t">>,
     <<"s","e","r","v","i","c","e">>,
     <<"s","e","t","_","f","a","c","t">>,
     <<"s","e","t","u","p">>,
     <<"s","h","e","l","l">>,
     <<"s","l","u","r","p">>,
     <<"s","t","a","t">>,
     <<"t","e","m","p","l","a","t","e">>,
     <<"u","n","a","r","c","h","i","v","e">>,
     <<"u","r","i">>,
     <<"u","s","e","r">>,
     <<"w","a","i","t","_","f","o","r">>,
     <<"y","u","m">>,
     <<"a","p","t">>,
     <<"p","a","c","k","a","g","e">>,
     <<"s","y","s","t","e","m","d">>,
     <<"b","l","o","c","k","i","n","f","i","l","e">>,
     <<"r","e","p","l","a","c","e">>,
     <<"i","m","p","o","r","t","_","t","a","s","k","s">>,
     <<"i","m","p","o","r","t","_","p","l","a","y","b","o","o","k">> >>

\* the literal text of the replacement template, fix_fqcn.py:30
FQCN == <<"a","n","s","i","b","l","e",".","b","u","i","l","t","i","n",".">>

\* len(sys.argv) of a well-formed call, fix_fqcn.py:44
ExpectedArgc == 2

NL == "\n"
CR == "\r"

(***************************************************************************)
(* The regular expression, fix_fqcn.py:29-31.                              *)
(***************************************************************************)
\* \s of a str pattern, restricted to the ASCII whitespace the files hold
IsSpace(c) == c \in {" ", "\t", "\n", "\r", "\f"}

\* variant: the anchor is missing from the pattern
AtLineStart_unanchored(s, p) == TRUE

\* ^ under re.MULTILINE: start of the string or just after a newline
AtLineStart(s, p) == p = 1 \/ s[p - 1] = NL

\* first position at or after p that does not hold whitespace (greedy \s*)
RECURSIVE SpaceRun(_, _)
SpaceRun(s, p) ==
  IF p <= Len(s) /\ IsSpace(s[p]) THEN SpaceRun(s, p + 1) ELSE p

\* the literal w occurs in s at position p
HasAt(s, p, w) ==
  /\ p + Len(w) - 1 <= Len(s)
  /\ \A k \in 1..Len(w) : s[p + k - 1] = w[k]

\* variant: the pattern is only the module name and the colon, found anywhere
Match_bare(s, p, module) ==
  IF HasAt(s, p, module \o <<":">>)
  THEN <<p, SpaceRun(s, p + Len(module) + 1)>>
  ELSE <<0, 0>>

\* Attempt of the pattern  ^ (\s+) ({module}) : (\s* )  at position p.
\* The result is <<q, e>>:
\* group 1 is s[p..q-1], the module name starts at q, group 3 ends before e.
\* <<0, 0>> when there is no match at p.  A module name starts with a letter,
\* so giving back whitespace of the greedy \s+ never produces a match.
Match(s, p, module) ==
  LET q == SpaceRun(s, p)
  IN  IF AtLineStart(s, p) /\ q > p /\ HasAt(s, q, module \o <<":">>)
      THEN <<q, SpaceRun(s, q + Len(module) + 1)>>
      ELSE <<0, 0>>

\* variant: the template lacks the reference to group 3
Replacement_dropsTrailing(s, p, q, e, module) ==
  SubSeq(s, p, q - 1) \o FQCN \o module \o <<":">>

\* the replacement template \1ansible.builtin.{module}:\3 expanded on a match
Replacement(s, p, q, e, module) ==
  SubSeq(s, p, q - 1) \o FQCN \o module \o <<":">>
    \o SubSeq(s, q + Len(module) + 1, e - 1)

\* the search of re.sub: the first position at or after p where the pattern
\* matches, 0 when there is none
RECURSIVE Search(_, _, _)
Search(s, p, module) ==
  IF p > Len(s) THEN 0
  ELSE IF Match(s, p, module)[1] # 0 THEN p
  ELSE Search(s, p + 1, module)

\* re.sub: leftmost matches, left to right, the search resuming where the
\* previous match ended; the text between matches is copied
RECURSIVE Scan(_, _, _)
Scan(s, p, module) ==
  LET b == Search(s, p, module)
  IN  IF b = 0 THEN SubSeq(s, p, Len(s))
      ELSE LET m == Match(s, b, module)
           IN  SubSeq(s, p, b - 1) \o Replacement(s, b, m[1], m[2], module)
                 \o Scan(s, m[2], module)

Sub(module, s) == Scan(s, 1, module)

(***************************************************************************)
(* Text-mode file reading: open(file_path, 'r') translates "\r\n" and a    *)
(* lone "\r" to "\n" (universal newlines); writing on POSIX keeps "\n".    *)
(***************************************************************************)
RECURSIVE UniversalNewlines(_)
UniversalNewlines(b) ==
  IF b = <<>> THEN <<>>
  ELSE IF b[1] = CR
       THEN IF Len(b) >= 2 /\ b[2] = NL
            THEN <<NL>> \o UniversalNewlines(SubSeq(b, 3, Len(b)))
            ELSE <<NL>> \o UniversalNewlines(Tail(b))
       ELSE <<b[1]>> \o UniversalNewlines(Tail(b))

(***************************************************************************)
(* Input files.                                                            *)
(***************************************************************************)
raw == builtin_modules[14]
file == builtin_modules[6]
lineinfile == builtin_modules[11]

\* lines (without their terminator) the input files are made of
LineVocab ==
  { raw \o <<":">>,                              \* raw:
    <<" ">> \o raw \o <<":">>,                   \*  raw:
    <<" ">> \o raw \o <<":", " ">>,              \*  raw:_
    <<" ">> \o raw \o <<":", " ", "x">>,         \*  raw: x
    <<" ", "-", " ">> \o raw \o <<":">>,          \*  - raw:
    <<" ">> \o FQCN \o raw \o <<":">>,           \*  ansible.builtin.raw:
    <<" ">> \o raw \o <<"x", ":">>,              \*  rawx:
    <<" ", "x">> \o raw \o <<":">>,              \*  xraw:
    <<>>,                                        \* empty line
    <<" ">>,                                     \* blank line
    <<" ">> \o file \o <<":">>,                  \*  file:
    <<" ">> \o lineinfile \o <<":">>,            \*  lineinfile:
    <<" ">> \o raw \o <<":", CR>> }              \*  raw:<CR>

RECURSIVE Join(_)
Join(ls) ==
  IF Len(ls) = 1 THEN ls[1] ELSE ls[1] \o <<NL>> \o Join(Tail(ls))

\* the documents of at most MaxLines lines taken from V
DocsOver(V) == UNION { { Join(ls) : ls \in [1..n -> V] } : n \in 1..MaxLines }

Docs == DocsOver(LineVocab)

NoFile == [exists |-> FALSE, data |-> <<>>]
Files == {NoFile} \cup { [exists |-> TRUE, data |-> d] : d \in Docs }

(***************************************************************************)
(* Lines of a text.                                                        *)
(***************************************************************************)
\* position of the first newline of s at or after p, Len(s) + 1 if none
RECURSIVE LineEnd(_, _)
LineEnd(s, p) ==
  IF p <= Len(s) /\ s[p] # NL THEN LineEnd(s, p + 1) ELSE p

\* the lines of s, without their newlines
RECURSIVE LinesFrom(_, _)
LinesFrom(s, p) ==
  LET e == LineEnd(s, p)
  IN  IF e > Len(s) THEN <<SubSeq(s, p, Len(s))>>
      ELSE <<SubSeq(s, p, e - 1)>> \o LinesFrom(s, e + 1)

Lines(s) == LinesFrom(s, 1)

(***************************************************************************)
(* State.                                                                  *)
(***************************************************************************)
VARIABLES
  argc,      \* len(sys.argv)
  pc,        \* position in the script
  disk,      \* the file at file_path
  content,   \* the local variable content
  i,         \* index of the next module of the for loop
  order,     \* the list the for loop iterates over
  stdout,    \* messages printed so far in this invocation
  success,   \* the value returned by fix_fqcn_in_file
  exitcode,  \* process exit code, -1 while running
  disk0,     \* history: the file when the invocation started
  read0,     \* history: content as returned by f.read()
  opens,     \* history: number of open(file_path, 'w') calls
  run,       \* history: number of this invocation
  prevOk,    \* history: the previous invocation on this file exited with 0
  listed,    \* history: the result of the same passes in builtin_modules order
  alone,     \* history: each line of read0 put through the same passes by itself
  failedAt,  \* history: the step that raised: "none", "read", "open", "write"
  steps      \* history: the steps completed so far in this invocation

vars == <<argc, pc, disk, content, i, order, stdout, success, exitcode,
          disk0, read0, opens, run, prevOk, listed, alone, failedAt, steps>>

InitWith(o) ==
  /\ argc \in {1, 2, 3}
  /\ pc = "main"
  /\ disk \in Files
  /\ content = <<>>
  /\ i = 1
  /\ order = o
  /\ stdout = <<>>
  /\ success = FALSE
  /\ exitcode = -1
  /\ disk0 = disk
  /\ read0 = <<>>
  /\ opens = 0
  /\ run = 1
  /\ prevOk = FALSE
  /\ listed = <<>>
  /\ alone = <<>>
  /\ failedAt = "none"
  /\ steps = <<>>

Init == InitWith(builtin_modules)

(***************************************************************************)
(* __main__, fix_fqcn.py:43-49.                                            *)
(***************************************************************************)
MainUsage ==
  /\ pc = "main"
  /\ argc # ExpectedArgc
  /\ stdout' = Append(stdout, "usage")
  /\ exitcode' = 1
  /\ pc' = "exit"
  /\ UNCHANGED <<argc, disk, content, i, order, success, disk0, read0, opens,
                 run, prevOk, failedAt, steps, listed, alone>>

MainCall ==
  /\ pc = "main"
  /\ argc = ExpectedArgc
  /\ pc' = "read"
  /\ UNCHANGED <<argc, disk, content, i, order, stdout, success, exitcode,
                 disk0, read0, opens, run, prevOk, listed, failedAt, steps,
                 alone>>

(***************************************************************************)
(* fix_fqcn_in_file, fix_fqcn.py:22-41.                                    *)
(***************************************************************************)
\* with open(file_path, 'r') as f: content = f.read()
ReadOk ==
  /\ pc = "read"
  /\ disk.exists
  /\ content' = UniversalNewlines(disk.data)
  /\ read0' = content'
  /\ i' = 1
  /\ pc' = "loop"
  /\ steps' = Append(steps, "read")
  /\ listed' = content'
  /\ alone' = Lines(content')
  /\ UNCHANGED <<argc, disk, order, stdout, success, exitcode, disk0, opens,
                 run, prevOk, failedAt>>

\* variant: the file is opened in a mode that creates it
ReadFail_creates ==
  /\ pc = "read"
  /\ pc' = "except"
  /\ failedAt' = "read"
  /\ disk' = [exists |-> TRUE, data |-> disk.data]
  /\ UNCHANGED <<argc, content, i, order, stdout, success, exitcode, disk0,
                 read0, opens, run, prevOk, steps, listed, alone>>

\* open or read raises: the path does not exist, or it exists and cannot be
\* read or decoded
ReadFail ==
  /\ pc = "read"
  /\ pc' = "except"
  /\ failedAt' = "read"
  /\ UNCHANGED <<argc, disk, content, i, order, stdout, success, exitcode,
                 disk0, read0, opens, run, prevOk, steps, listed, alone>>

\* one iteration of: for module in builtin_modules
LoopPass ==
  /\ pc = "loop"
  /\ i <= Len(order)
  /\ content' = Sub(order[i], content)
  /\ i' = i + 1
  /\ steps' = Append(steps, "pass")
  /\ listed' = Sub(builtin_modules[i], listed)
  /\ alone' = [k \in DOMAIN alone |-> Sub(order[i], alone[k])]
  /\ UNCHANGED <<argc, pc, disk, order, stdout, success, exitcode, disk0,
                 read0, opens, run, prevOk, failedAt>>

\* open(file_path, 'w') succeeds: the file is created or truncated
OpenWriteOk ==
  /\ pc = "loop"
  /\ i > Len(order)
  /\ disk' = [exists |-> TRUE, data |-> <<>>]
  /\ opens' = opens + 1
  /\ pc' = "write"
  /\ steps' = Append(steps, "open")
  /\ UNCHANGED <<argc, content, i, order, stdout, success, exitcode, disk0,
                 read0, run, prevOk, failedAt, listed, alone>>

\* variant: the open truncates the file before it raises
OpenWriteFail_truncates ==
  /\ pc = "loop"
  /\ i > Len(order)
  /\ opens' = opens + 1
  /\ disk' = [exists |-> TRUE, data |-> <<>>]
  /\ failedAt' = "open"
  /\ pc' = "except"
  /\ UNCHANGED <<argc, content, i, order, stdout, success, exitcode, disk0,
                 read0, run, prevOk, steps, listed, alone>>

\* open(file_path, 'w') raises (permission denied): the file is not touched
OpenWriteFail ==
  /\ pc = "loop"
  /\ i > Len(order)
  /\ opens' = opens + 1
  /\ pc' = "except"
  /\ failedAt' = "open"
  /\ UNCHANGED <<argc, disk, content, i, order, stdout, success, exitcode,
                 disk0, read0, run, prevOk, steps, listed, alone>>

\* f.write(content) and the close succeed; print the confirmation; return True
WriteOk ==
  /\ pc = "write"
  /\ disk' = [exists |-> TRUE, data |-> content]
  /\ stdout' = Append(stdout, "fixed")
  /\ success' = TRUE
  /\ pc' = "return"
  /\ steps' = Append(steps, "write")
  /\ UNCHANGED <<argc, content, i, order, exitcode, disk0, read0, opens, run,
                 prevOk, failedAt, listed, alone>>

\* f.write(content) or the flush at close raises (disk full, I/O error):
\* the truncated file holds some prefix of content
WriteFail ==
  /\ pc = "write"
  /\ \E n \in 0..Len(content) :
       disk' = [exists |-> TRUE, data |-> SubSeq(content, 1, n)]
  /\ pc' = "except"
  /\ failedAt' = "write"
  /\ UNCHANGED <<argc, content, i, order, stdout, success, exitcode, disk0,
                 read0, opens, run, prevOk, steps, listed, alone>>

\* except Exception as e: print the error; return False
Except ==
  /\ pc = "except"
  /\ stdout' = Append(stdout, "error")
  /\ success' = FALSE
  /\ pc' = "return"
  /\ UNCHANGED <<argc, disk, content, i, order, exitcode, disk0, read0,
                 opens, run, prevOk, failedAt, steps, listed, alone>>

\* variant: the two exit codes are swapped
MainExit_swapped ==
  /\ pc = "return"
  /\ exitcode' = IF success THEN 1 ELSE 0
  /\ pc' = "exit"
  /\ UNCHANGED <<argc, disk, content, i, order, stdout, success, disk0,
                 read0, opens, run, prevOk, failedAt, steps, listed, alone>>

\* sys.exit(0 if success else 1)
MainExit ==
  /\ pc = "return"
  /\ exitcode' = IF success THEN 0 ELSE 1
  /\ pc' = "exit"
  /\ UNCHANGED <<argc, disk, content, i, order, stdout, success, disk0,
                 read0, opens, run, prevOk, failedAt, steps, listed, alone>>

\* the user runs the tool again on the file a successful run has produced
Rerun ==
  /\ pc = "exit"
  /\ exitcode = 0
  /\ run < MaxRuns
  /\ run' = run + 1
  /\ prevOk' = TRUE
  /\ argc' = ExpectedArgc
  /\ pc' = "main"
  /\ content' = <<>>
  /\ i' = 1
  /\ stdout' = <<>>
  /\ success' = FALSE
  /\ exitcode' = -1
  /\ disk0' = disk
  /\ read0' = <<>>
  /\ opens' = 0
  /\ failedAt' = "none"
  /\ steps' = <<>>
  /\ listed' = <<>>
  /\ alone' = <<>>
  /\ UNCHANGED <<disk, order>>

Next ==
  \/ MainUsage
  \/ MainCall
  \/ ReadOk
  \/ ReadFail
  \/ LoopPass
  \/ OpenWriteOk
  \/ OpenWriteFail
  \/ WriteOk
  \/ WriteFail
  \/ Except
  \/ MainExit
  \/ Rerun

Spec == Init /\ [][Next]_vars

(***************************************************************************)
(* The same loop run over a reordered module list: the modules at the      *)
(* first NumPermuted positions of PermCandidates exchange their places in  *)
(* builtin_modules, every other module keeps its place.  The runs are the  *)
(* successful ones: the file exists and no step raises.  The documents are *)
(* made of the lines of LineVocab on which passes of different modules     *)
(* meet.                                                                   *)
(***************************************************************************)
PermVocab ==
  { raw \o <<":">>,
    <<" ">> \o raw \o <<":">>,
    <<" ">> \o raw \o <<":", " ", "x">>,
    <<" ", "-", " ">> \o raw \o <<":">>,
    <<>>,
    <<" ">> \o file \o <<":">>,
    <<" ">> \o lineinfile \o <<":">> }

PermDocs == DocsOver(PermVocab)

\* positions in builtin_modules of file, lineinfile, raw, uri, command, debug
PermCandidates == <<6, 11, 14, 24, 2, 4>>

PermSlots == { PermCandidates[k] : k \in 1..NumPermuted }

PermOrders ==
  { [k \in 1..Len(builtin_modules) |->
       IF k \in PermSlots THEN builtin_modules[pi[k]] ELSE builtin_modules[k]] :
    pi \in { f \in [PermSlots -> PermSlots] :
               \A a, b \in PermSlots : a # b => f[a] # f[b] } }

InitPerm ==
  /\ \E o \in PermOrders : InitWith(o)
  /\ argc = ExpectedArgc
  /\ disk.exists
  /\ disk.data \in PermDocs

NextPerm ==
  \/ MainCall
  \/ ReadOk
  \/ LoopPass
  \/ OpenWriteOk
  \/ WriteOk
  \/ MainExit

SpecPerm == InitPerm /\ [][NextPerm]_vars

(***************************************************************************)
(* Vocabulary of the properties.                                           *)
(***************************************************************************)
\* the for loop has just run to its end: content is the result of the loop
LoopDone == pc = "loop" /\ i > Len(order)

\* number of characters of indentation of a line
Indent(l) == SpaceRun(l, 1) - 1

\* the line is: optional whitespace, a known module name, a colon, anything
IsModuleKeyLine(l) ==
  \E k \in 1..Len(builtin_modules) :
    HasAt(l, Indent(l) + 1, builtin_modules[k] \o <<":">>)

\* the text of the line after the colon of its key
AfterKey(l) ==
  LET k == CHOOSE k \in 1..Len(builtin_modules) :
             HasAt(l, Indent(l) + 1, builtin_modules[k] \o <<":">>)
  IN  SubSeq(l, Indent(l) + Len(builtin_modules[k]) + 2, Len(l))

AllSpace(t) == \A k \in 1..Len(t) : IsSpace(t[k])

\* optional whitespace, known module name, colon, optional trailing whitespace
IsBareModuleLine(l) == IsModuleKeyLine(l) /\ AllSpace(AfterKey(l))

\* indentation, known module name, colon, then text that is not all whitespace
IsModuleLineWithValue(l) == IsModuleKeyLine(l) /\ ~AllSpace(AfterKey(l))

\* indentation, a list-item dash and a space, a known module name, a colon
IsDashModuleLine(l) ==
  /\ HasAt(l, Indent(l) + 1, <<"-", " ">>)
  /\ \E k \in 1..Len(builtin_modules) :
       HasAt(l, Indent(l) + 3, builtin_modules[k] \o <<":">>)

\* the line with ansible.builtin. inserted between indentation and key
Prefixed(l) ==
  SubSeq(l, 1, Indent(l)) \o FQCN \o SubSeq(l, Indent(l) + 1, Len(l))

InLines == Lines(read0)
OutLines == Lines(content)

(***************************************************************************)
(* Properties of the rewrite, fix_fqcn.py:27-31.                           *)
(***************************************************************************)
\* C1: once the loop has finished, every line of the document read that is
\* optional whitespace, a known module name, a colon and optional trailing
\* whitespace appears in the result as the same indentation, ansible.builtin.,
\* the same name and colon and the same trailing whitespace, whatever its
\* indentation and its neighbours.
C1_BareModuleLinesPrefixed ==
  LoopDone =>
    /\ Len(OutLines) = Len(InLines)
    /\ \A k \in 1..Len(InLines) :
         IsBareModuleLine(InLines[k]) => OutLines[k] = Prefixed(InLines[k])

\* C2: idempotence: when the tool is run on the file a successful run has
\* produced, the result of the loop is the content it read.
C2_Idempotent ==
  (prevOk /\ LoopDone) => content = read0

\* C3: the output of a line depends on the text of the line alone: it is the
\* output the same line has in the document that consists of that line only.
C3_LineIndependent ==
  LoopDone => OutLines = alone

C6_ValueLinePrefixed ==
  LoopDone =>
    /\ Len(OutLines) = Len(InLines)
    /\ \A k \in 1..Len(InLines) :
         IsModuleLineWithValue(InLines[k]) =>
           OutLines[k] = Prefixed(InLines[k])

(***************************************************************************)
(* Properties of the file handling and of the process, fix_fqcn.py:22-49.  *)
(***************************************************************************)
IsPrefix(a, b) == Len(a) <= Len(b) /\ a = SubSeq(b, 1, Len(a))

\* the steps of an invocation in which nothing raised
AllSteps ==
  <<"read">> \o [k \in 1..Len(builtin_modules) |-> "pass"] \o <<"open", "write">>

\* C7 as stated: when the read succeeded and the write step (the open for
\* writing or the write) failed, the file is what it was before the invocation.
C7_NothingWritten ==
  failedAt \in {"open", "write"} => disk = disk0

\* C7 amended: when the open for writing fails the file is what it was before
\* the invocation; when the write fails after the open the file holds a
\* prefix of the transformed content; either way the error is reported and
\* the function returns False.
C7_FileAfterFailedWrite ==
  /\ failedAt = "open" => disk = disk0
  /\ failedAt = "write" => (disk.exists /\ IsPrefix(disk.data, content))
  /\ (failedAt \in {"open", "write"} /\ pc = "exit") =>
       (stdout = <<"error">> /\ ~success /\ exitcode = 1)

\* the open for writing failed in a run whose loop had changed the content
C7_Witness ==
  /\ pc = "exit"
  /\ failedAt = "open"
  /\ content # read0
  /\ disk0.exists
  /\ disk0.data # <<>>

\* C8: when the path does not exist the read fails; when the read fails, the
\* file is never opened for writing, the file is as it was (not created, not
\* modified), and the invocation ends with the error message and exit code 1.
C8_ReadFailure ==
  /\ (argc = ExpectedArgc /\ ~disk0.exists /\ pc \in {"loop", "write", "exit"})
       => (pc = "exit" /\ failedAt = "read")
  /\ failedAt = "read" =>
       /\ opens = 0
       /\ steps = <<>>
       /\ disk = disk0
       /\ pc = "exit" => (stdout = <<"error">> /\ exitcode = 1)

\* the invocation on a missing path has ended
C8_Witness ==
  /\ pc = "exit"
  /\ failedAt = "read"
  /\ ~disk0.exists
  /\ ~disk.exists

\* C9: an invocation ends with one message and an exit code; the code is 0,
\* with the confirmation, exactly when the read, every pass and the write
\* completed in this order, and then the file holds the transformed content;
\* a wrong argument count gives the usage message and code 1 without any file
\* access; a raised exception gives the error message and code 1.  The file
\* is opened for writing at most once and only after the read and all passes.
C9_Outcome ==
  /\ opens <= 1
  /\ opens = 1 =>
       /\ Len(steps) >= Len(builtin_modules) + 1
       /\ SubSeq(steps, 1, Len(builtin_modules) + 1)
            = SubSeq(AllSteps, 1, Len(builtin_modules) + 1)
  /\ pc # "exit" => exitcode = -1
  /\ pc = "exit" =>
       /\ Len(stdout) = 1
       /\ exitcode \in {0, 1}
       /\ exitcode = 0 <=> stdout = <<"fixed">>
       /\ exitcode = 0 <=> steps = AllSteps
       /\ exitcode = 0 => disk = [exists |-> TRUE, data |-> content]
       /\ argc # ExpectedArgc =>
            (stdout = <<"usage">> /\ exitcode = 1 /\ steps = <<>>
               /\ opens = 0 /\ disk = disk0)
       /\ failedAt # "none" => (stdout = <<"error">> /\ exitcode = 1)
       /\ (argc = ExpectedArgc /\ failedAt = "none") => exitcode = 0

\* a successful invocation that changed the file has ended
C9_Witness ==
  /\ pc = "exit"
  /\ exitcode = 0
  /\ disk.data # disk0.data

\* C10: whatever the order of the passes, the result of the loop is the
\* result of the passes in the order of builtin_modules.
C10_OrderIndependent ==
  LoopDone => content = listed

\* the loop has run in another order over a document in which the passes of
\* two different modules each rewrote a line
C10_Witness ==
  /\ LoopDone
  /\ order # builtin_modules
  /\ \E k \in 1..Len(InLines) : OutLines[k] = Prefixed(InLines[k])
       /\ HasAt(InLines[k], Indent(InLines[k]) + 1, raw \o <<":">>)
  /\ \E k \in 1..Len(InLines) : OutLines[k] = Prefixed(InLines[k])
       /\ HasAt(InLines[k], Indent(InLines[k]) + 1, file \o <<":">>)

====
